---- MODULE Spec2Model ----
(***************************************************************************)
(* Gesture pipeline of the particle Christmas tree (src/src/App.tsx):      *)
(* GestureController (asynchronous setup, the requestAnimationFrame        *)
(* inference loop predictWebcam, the effect cleanup) and the GrandTreeApp  *)
(* state it drives (sceneState, rotationSpeed, aiStatus, selectedPhoto).   *)
(*                                                                         *)
(* Units.  Landmark coordinates are normalised reals in the source; here   *)
(* they are integers in units of 1/XUnits.  Speeds are integers in units   *)
(* of 1/SpeedUnits.  Classifier scores are integers in hundredths.  Times  *)
(* are integer milliseconds, as Date.now() returns them.  A status string  *)
(* is the sequence of its words.                                           *)
(*                                                                         *)
(* Time.  predictWebcam uses the clock only in nowMs - lastInferenceMs, so *)
(* the model keeps time relative to the last classifier call: after a call *)
(* the origin moves so that the instant of the call reads Epoch (Rebase).  *)
(* The clock may stand still or step back between two readings, as         *)
(* Date.now() may.                                                         *)
(***************************************************************************)
EXTENDS Integers, Sequences, FiniteSets, TLC

VARIABLES
    sceneState,        \* GrandTreeApp useState<SceneState>
    rotationSpeed,     \* GrandTreeApp useState(0), in 1/SpeedUnits
    aiStatus,          \* GrandTreeApp useState("INITIALIZING...")
    selectedPhoto,     \* GrandTreeApp useState<string | null>
    selectedPhotoRef,  \* selectedPhotoRef.current: the value of the last render
    quality,           \* GrandTreeApp useState<QualityPreset>
    debugMode,         \* GrandTreeApp useState(false)
    debugModeRef,      \* debugModeRef.current
    perfRef,           \* perfRef.current, as the preset it was computed from
    isPinchingRef,     \* isPinchingRef.current (PinchState)
    videoRef,          \* videoRef.current / canvasRef.current attached
    pc,                \* position of the asynchronous setup()
    gestureRecognizer, \* closure variable of the effect: "null" or "rec"
    stream,            \* closure variable of the effect: "null" or "stream"
    lastInferenceMs,   \* closure variable of the effect
    requestRef,        \* TRUE iff the handle in requestRef is a pending callback
    rafPending,        \* number of predictWebcam callbacks pending in the browser
    recognizerRes,     \* the classifier resource: "none", "open", "closed"
    tracks,            \* the camera stream's tracks: "none", "live", "stopped"
    tornDown,          \* the effect cleanup has run
    last,              \* what the last invocation of predictWebcam did
    experience,        \* the props of the last render of Experience, as applied
    pools,             \* the instance pools of the mounted Canvas
    instance,          \* one instance of the scene, followed through the frames
    browser,           \* localStorage and navigator, as GrandTreeApp sees them
    sample             \* the data element the last run of a data useMemo built

vars == << sceneState, rotationSpeed, aiStatus, selectedPhoto, selectedPhotoRef,
           quality, debugMode, debugModeRef, perfRef, isPinchingRef, videoRef, pc, gestureRecognizer,
           stream, lastInferenceMs, requestRef, rafPending, recognizerRes, tracks,
           tornDown, last, experience, pools, instance, browser, sample >>

----------------------------------------------------------------------------
(* Bounds of the model.                                                    *)

\* Date.now() is read as Epoch + i * StepMs for i in -1..MaxTicks, where Epoch
\* is the instant of the last classifier call (see Rebase).
Epoch == 1000
StepMs == 50
MaxTicks == 2

\* The followed coordinate starts Span position units from its target, and a
\* frame that would take it further than MaxPos units from the origin is not
\* taken.
Span == 16
MaxPos == 50

\* The distance, in position units, below which the followed coordinate counts
\* as converged: the resolution of the rounded arithmetic at the smallest
\* delta * rate of the FORMED mode.
Eps == 2

----------------------------------------------------------------------------
(* Program constants.                                                      *)

TOTAL_NUMBERED_PHOTOS == 8

\* null (no photo); like null in the source it is falsy
NULL == << >>

\* undefined, what reading an index an array does not have gives
UNDEFINED == <<"undefined">>

PhotoName(i) == <<"/photos/", i, ".jpg">>

bodyPhotoPaths ==
    << <<"/photos/", 0, "top.jpg">> >> \o [i \in 1..TOTAL_NUMBERED_PHOTOS |-> PhotoName(i)]

PHOTO_PATHS == [body |-> bodyPhotoPaths]

\* PERF_PRESETS[q]: counts, and the fields of mediapipe the controller reads
PERF_PRESETS ==
    [HIGH |-> [counts |-> [foliage |-> 15000, ornaments |-> 300, elements |-> 200,
                           lights |-> 400],
               preferredDelegate |-> "GPU", maxFps |-> 24],
     LOW  |-> [counts |-> [foliage |-> 6000, ornaments |-> 100, elements |-> 80,
                           lights |-> 150],
               preferredDelegate |-> "CPU", maxFps |-> 15]]

XUnits == 15 * 100
SpeedUnits == 100 * 100

----------------------------------------------------------------------------
(* Pure helpers.                                                           *)

Abs(n) == IF n < 0 THEN -n ELSE n

\* JavaScript truthiness of a string | null
Truthy(p) == p # NULL /\ p # UNDEFINED

\* getDistance squared: Math.sqrt is monotone, so d < t iff d^2 < t^2 for t >= 0
getDistanceSquared(p1, p2) ==
    (p1.x - p2.x) * (p1.x - p2.x) + (p1.y - p2.y) * (p1.y - p2.y)
        + (p1.z - p2.z) * (p1.z - p2.z)

\* const pinchThreshold = 0.08, in 1/XUnits
pinchThreshold == (8 * XUnits) \div 100

Below(dSquared, threshold) == dSquared < threshold * threshold

detectThreeFingerPinch(landmarks) ==
    LET thumbTip == landmarks[4]
        indexTip == landmarks[8]
        middleTip == landmarks[12]
        thumbToIndex == getDistanceSquared(thumbTip, indexTip)
        thumbToMiddle == getDistanceSquared(thumbTip, middleTip)
        indexToMiddle == getDistanceSquared(indexTip, middleTip)
    IN  /\ Below(thumbToIndex, pinchThreshold)
        /\ Below(thumbToMiddle, pinchThreshold)
        /\ Below(indexToMiddle, pinchThreshold)

\* The pinch event predictWebcam emits for the test result isPinching when
\* isPinchingRef.current is wasPinching: "start" is onPinch(true), "end" is
\* onPinch(false).
PinchEdge(isPinching, wasPinching) ==
    IF isPinching /\ ~wasPinching THEN "start"
    ELSE IF ~isPinching /\ wasPinching THEN "end"
    ELSE "none"

\* mutant: the edge detection never records that a pinch began
PinchRefNeverSet(isPinching, wasPinching) ==
    IF ~isPinching /\ wasPinching THEN FALSE ELSE wasPinching

\* isPinchingRef.current after the edge detection
PinchRefAfter(isPinching, wasPinching) ==
    IF isPinching /\ ~wasPinching THEN TRUE
    ELSE IF ~isPinching /\ wasPinching THEN FALSE
    ELSE wasPinching

\* mutant: score >= 0.4
ScoreAtLeast(score) == score >= 40

\* score > 0.4, scores in hundredths
ScoreAbove(score) == score > 40

\* mutant: the classification is mapped while pinching too
GestureCommandWhilePinching(gestures, isPinching) ==
    IF Len(gestures) > 0
    THEN LET name == gestures[1][1].categoryName
             score == gestures[1][1].score
         IN  IF ScoreAbove(score)
             THEN IF name = "Closed_Fist" THEN "FORMED"
                  ELSE IF name = "Open_Palm" THEN "CHAOS"
                  ELSE "none"
             ELSE "none"
    ELSE "none"

\* The onGesture call of a frame: "CHAOS", "FORMED" or "none"
GestureCommand(gestures, isPinching) ==
    IF Len(gestures) > 0
    THEN LET name == gestures[1][1].categoryName
             score == gestures[1][1].score
         IN  IF ScoreAbove(score) /\ ~isPinching
             THEN IF name = "Closed_Fist" THEN "FORMED"
                  ELSE IF name = "Open_Palm" THEN "CHAOS"
                  ELSE "none"
             ELSE "none"
    ELSE "none"

\* const speed = (0.5 - landmarks[0].x) * 0.15, in 1/SpeedUnits
HandSpeed(x) == ((XUnits \div 2 - x) * 15 * SpeedUnits) \div (100 * XUnits)

\* mutant: Math.abs(speed) >= 0.01
DeadzoneInclusive(speed) == IF Abs(speed) >= SpeedUnits \div 100 THEN speed ELSE 0

\* Math.abs(speed) > 0.01 ? speed : 0
Deadzone(speed) == IF Abs(speed) > SpeedUnits \div 100 THEN speed ELSE 0

\* mutant: the interval is compared with the size of the clock's change
ShouldInferAbs(nowMs, lastMs, targetFps) ==
    LET perSecond == IF targetFps > 0 THEN targetFps ELSE 15
    IN  Abs(nowMs - lastMs) * perSecond >= 1000

\* mutant: the interval is taken as targetFps / 1000
ShouldInferInverted(nowMs, lastMs, targetFps) ==
    LET perSecond == IF targetFps > 0 THEN targetFps ELSE 15
    IN  (nowMs - lastMs) * 1000 >= perSecond

\* nowMs - lastInferenceMs >= intervalMs, with intervalMs = 1000 / targetFps
\* when targetFps > 0 and 1000 / 15 otherwise (compared without dividing)
ShouldInfer(nowMs, lastMs, targetFps) ==
    LET perSecond == IF targetFps > 0 THEN targetFps ELSE 15
    IN  (nowMs - lastMs) * perSecond >= 1000

\* array[index] for an array with indexes from 0
ArrayAt(array, index) ==
    IF index \in 0..(Len(array) - 1) THEN array[index + 1] ELSE UNDEFINED

\* mutant: a pinch start selects a photo whether or not one is displayed
handlePinchUnguarded(isPinching, refCurrent, randomIndex) ==
    IF isPinching
    THEN [call |-> "path", value |-> PHOTO_PATHS.body[randomIndex + 1]]
    ELSE IF Truthy(refCurrent)
    THEN [call |-> "null", value |-> NULL]
    ELSE [call |-> "none", value |-> NULL]

\* mutant: a pinch end does not close the photo
handlePinchNoClose(isPinching, refCurrent, randomIndex) ==
    IF isPinching /\ ~Truthy(refCurrent)
    THEN [call |-> "path", value |-> PHOTO_PATHS.body[randomIndex + 1]]
    ELSE [call |-> "none", value |-> NULL]

\* mutant: every pinch event selects a photo when none is displayed and
\* closes the one that is
handlePinchToggle(isPinching, refCurrent, randomIndex) ==
    IF ~Truthy(refCurrent)
    THEN [call |-> "path", value |-> PHOTO_PATHS.body[randomIndex + 1]]
    ELSE [call |-> "null", value |-> NULL]

\* handlePinch: the setSelectedPhoto call it makes, if any
handlePinch(isPinching, refCurrent, randomIndex) ==
    IF isPinching /\ ~Truthy(refCurrent)
    THEN [call |-> "path", value |-> ArrayAt(PHOTO_PATHS.body, randomIndex)]
    ELSE IF ~isPinching /\ Truthy(refCurrent)
    THEN [call |-> "null", value |-> NULL]
    ELSE [call |-> "none", value |-> NULL]

\* mutant: the status is the bare message
ErrorStatusBare(message) ==
    IF message = << >> THEN <<"MODEL", "FAILED">> ELSE message

\* `ERROR: ${err.message || 'MODEL FAILED'}`
ErrorStatus(message) ==
    <<"ERROR:">> \o (IF message = << >> THEN <<"MODEL", "FAILED">> ELSE message)

\* mutant: a gesture command toggles the mode
SceneAfterToggling(cmd, prev) ==
    IF cmd = "none" THEN prev ELSE IF prev = "CHAOS" THEN "FORMED" ELSE "CHAOS"

\* sceneState after the onGesture call of a frame, if any: onGesture is
\* setSceneState, called with the command
SceneAfter(cmd, prev) == IF cmd = "none" THEN prev ELSE cmd

\* mutant: the mode button only assembles the tree
FlipModeFormOnly(s) == "FORMED"

\* s => s === 'CHAOS' ? 'FORMED' : 'CHAOS'
FlipMode(s) == IF s = "CHAOS" THEN "FORMED" ELSE "CHAOS"

\* q => (q === 'HIGH' ? 'LOW' : 'HIGH')
FlipQuality(q) == IF q = "HIGH" THEN "LOW" ELSE "HIGH"

\* mutant: auto-rotate whenever the hand gives no rotation
AutoRotateAnyMode(speed, state) == speed = 0

\* autoRotate={rotationSpeed === 0 && sceneState === 'FORMED'}
AutoRotate(speed, state) == speed = 0 /\ state = "FORMED"

----------------------------------------------------------------------------
(* The scene.  The frame update of an instance reads that instance only,   *)
(* and Vector3.lerp works coordinate by coordinate, so the model follows   *)
(* one coordinate of one instance of one category (or the foliage's        *)
(* uProgress) through the frames.  Positions are integers in units of      *)
(* 1/PosUnits, progress values in 1/ProgressUnits, frame deltas in         *)
(* milliseconds, rates in hundredths per second; every product is rounded  *)
(* to the nearest unit, as floating point rounds to its own resolution.    *)

\* morphProgress and uProgress are in hundredths
ProgressUnits == 10 * 10

\* a / b rounded to the nearest integer (b > 0), halves upwards
RoundDiv(a, b) == (2 * a + b) \div (2 * b)

\* delta * rate, in thousandths
Alpha(rateCenti, deltaMs) == (rateCenti * deltaMs) \div 100

\* mutant: the position is set to the target
LerpSnap(x, v, alphaMilli) == v

\* Vector3.lerp on one coordinate: x += (v - x) * alpha
Lerp(x, v, alphaMilli) == x + RoundDiv((v - x) * alphaMilli, 1000)

\* Math.exp(-x) in thousandths, for the x (in thousandths) that occur
ExpNeg(xMilli) ==
    CASE xMilli = 375 -> 687
      [] xMilli = 500 -> 607
      [] xMilli = 1500 -> 223
      [] xMilli = 2000 -> 135

\* MathUtils.damp(x, y, lambda, dt) = lerp(x, y, 1 - Math.exp(-lambda * dt)),
\* with MathUtils.lerp(x, y, t) = (1 - t) * x + t * y
Damp(x, y, lambdaCenti, deltaMs) ==
    LET e == ExpNeg(Alpha(lambdaCenti, deltaMs))
    IN  RoundDiv(e * x + (1000 - e) * y, 1000)

\* NaN, which is no progress value
NaN == 0 - 1

\* MathUtils.damp on a value that may be NaN: arithmetic on NaN gives NaN
DampJS(x, y, lambdaCenti, deltaMs) ==
    IF x = NaN THEN NaN ELSE Damp(x, y, lambdaCenti, deltaMs)

\* the categories with per-instance data, and the foliage with its uniform
Categories == {"foliage", "ornaments", "elements", "lights"}

\* the lerp rate of a category, in hundredths: delta * (isFormed ? 0.8 *
\* weight : 0.5) for ornaments, delta * 1.5 for elements, delta * 2.0 for lights
Rate(category, weightCenti, isFormed) ==
    CASE category = "ornaments" -> IF isFormed THEN (80 * weightCenti) \div 100 ELSE 50
      [] category = "elements" -> 150
      [] category = "lights" -> 200

\* the pools a Canvas mounted under key={quality} creates, as lengths: every
\* data useMemo builds an array of PERF_PRESETS[quality].counts, and
\* morphProgressRef is useRef([]), line 1026, until its effect has run
MountPools(q) ==
    [key |-> q,
     foliage |-> PERF_PRESETS[q].counts.foliage,
     ornaments |-> PERF_PRESETS[q].counts.ornaments,
     morphProgress |-> 0,
     elements |-> PERF_PRESETS[q].counts.elements,
     lights |-> PERF_PRESETS[q].counts.lights]

\* mutant: the pools are created once and survive a change of quality
RemountNever(q, old) == old

\* the pools after a render with quality q: key={quality} remounts the
\* Canvas and everything below it when the key changes
Remount(q, old) == IF old.key # q THEN MountPools(q) ELSE old

----------------------------------------------------------------------------
(* Inputs: what the environment (clock, camera, classifier, browser) can   *)
(* hand to the program.                                                    *)

\* Date.now(): one step before the last classifier call, the same
\* millisecond, or up to MaxTicks steps after it
NowValues == {Epoch + i * StepMs : i \in -1..MaxTicks}

\* the instant t, once the origin has moved so that nowMs reads Epoch
Rebase(t, nowMs) == t - (nowMs - Epoch)

P(x, y, z) == [x |-> x, y |-> y, z |-> z]

\* One hand's landmark list, restricted to the indices the code reads:
\* 0 wrist, 4 thumb tip, 8 index tip, 12 middle tip
Hand(wristX, thumb, index, middle) ==
    (0 :> P(wristX, 900, 0)) @@ (4 :> thumb) @@ (8 :> index) @@ (12 :> middle)

\* all three tips within 0.08 of each other
PinchedHand(wristX) == Hand(wristX, P(600, 600, 0), P(650, 600, 0), P(600, 650, 30))
\* thumb and index exactly 0.08 apart: not below the threshold
ThresholdHand(wristX) == Hand(wristX, P(600, 600, 0), P(720, 600, 0), P(660, 600, 0))
\* thumb and index touching, middle finger away
OpenHand(wristX) == Hand(wristX, P(600, 600, 0), P(610, 600, 0), P(900, 300, 0))

\* wrist x giving the speeds 0.009, 0.011, 0.01, -0.009 and -0.011
Hands ==
    { OpenHand(660), OpenHand(640), ThresholdHand(650), OpenHand(840),
      PinchedHand(860), PinchedHand(660) }

\* the two hands every classification is paired with
ClassifiedHands == { OpenHand(660), PinchedHand(860) }

Category(name, score) == [categoryName |-> name, score |-> score]

\* results.gestures: none, or one hand's ranked list
GestureLists ==
    { << >>,
      << <<Category("Open_Palm", 39)>> >>,
      << <<Category("Open_Palm", 40)>> >>,
      << <<Category("Open_Palm", 41), Category("None", 30)>> >>,
      << <<Category("Closed_Fist", 90)>> >>,
      << <<Category("Victory", 90)>> >> }

Threw == [threw |-> TRUE, landmarks |-> << >>, gestures |-> << >>]
NoHand == [threw |-> FALSE, landmarks |-> << >>, gestures |-> << >>]

\* what recognizeForVideo does: throws, or returns landmarks and gestures
Results ==
    {Threw, NoHand}
        \cup { [threw |-> FALSE, landmarks |-> <<h>>, gestures |-> g] :
                 h \in ClassifiedHands, g \in GestureLists }
        \cup { [threw |-> FALSE, landmarks |-> <<h>>, gestures |-> << >>] :
                 h \in Hands }

\* mutant: Math.round in place of Math.floor
RandomIndexesRounded ==
    { RoundDiv(u * Len(PHOTO_PATHS.body), 1000) : u \in {0, 999} }

\* Math.floor(Math.random() * PHOTO_PATHS.body.length), for Math.random()
\* at its least and near its greatest, in thousandths: the first index and
\* the last
RandomIndexes ==
    { (u * Len(PHOTO_PATHS.body)) \div 1000 : u \in {0, 999} }

\* err.message of a rejection: absent, or some text
ErrMessages == { << >>, <<"Failed", "to", "fetch">> }

\* the delta of a frame in ms: a quarter of a second, or a whole second (a
\* stalled or throttled render loop; the clock's delta has no upper limit)
DeltaValues == {250, 1000}

\* weight = 0.8 + Math.random() * 1.2, in hundredths
WeightValues == {125}

\* the instance followed after a mount: currentPos is chaosPos.clone(),
\* uProgress 0 (line 943); morphProgress is what its slot of
\* morphProgressRef.current holds once the array has that slot
NewInstance(category, index, weight) ==
    [category |-> category, index |-> index, weight |-> weight,
     chaosPos |-> Span, targetPos |-> 0, currentPos |-> Span,
     morphProgress |-> 0, uProgress |-> 0]

\* the instances that can be followed in pools p: the first or the last of
\* a category
NewInstances(p) ==
    UNION { { NewInstance(c, i, w) : i \in {1, p[c]}, w \in WeightValues } :
            c \in Categories }

----------------------------------------------------------------------------
(* Population: the data useMemo of each component, for one element. Lengths *)
(* are in thousandths; Math.random() is a value of RandomValues, also in    *)
(* thousandths.                                                             *)

\* no element built yet
NoSample == [category |-> "none", chaosPos |-> <<0, 0, 0>>, targetPos |-> <<0, 0, 0>>]

\* TREE, line 855
TREE == [height |-> 22000, radius |-> 9000]

\* the values Math.random() returns: 0 <= u < 1
RandomValues == {0, 125, 250, 500, 750, 999}

\* Math.cos and Math.sin of u * Math.PI * 2, rounded to thousandths
Cos2Pi(u) ==
    CASE u = 0 -> 1000 [] u = 125 -> 707 [] u = 250 -> 0
      [] u = 500 -> -1000 [] u = 750 -> 0 [] u = 999 -> 1000
Sin2Pi(u) ==
    CASE u = 0 -> 0 [] u = 125 -> 707 [] u = 250 -> 1000
      [] u = 500 -> 0 [] u = 750 -> -1000 [] u = 999 -> -6

\* y = Math.random() * h - h / 2
TreeY(u) == (u * TREE.height) \div 1000 - TREE.height \div 2

\* rBase * (1 - (y + h/2) / h): the radius of the cone at height y
ConeRadius(y) ==
    LET normalizedY == ((y + TREE.height \div 2) * 1000) \div TREE.height
    IN  (TREE.radius * (1000 - normalizedY)) \div 1000

\* [r cos(theta), y, r sin(theta)]
OnCircle(r, y, uTheta) ==
    << RoundDiv(r * Cos2Pi(uTheta), 1000), y, RoundDiv(r * Sin2Pi(uTheta), 1000) >>

\* getTreePosition, lines 967-973: the radius is a random part of the cone's
getTreePosition(uY, uTheta, uR) ==
    LET y == TreeY(uY)
        currentRadius == ConeRadius(y)
        r == RoundDiv(uR * currentRadius, 1000)
    IN  OnCircle(r, y, uTheta)

\* mutant: the elements are placed 0.95 beyond the cone, not at 0.95 of it
TargetRadiusAdded(category, y) ==
    CASE category = "ornaments" -> ConeRadius(y) + 500
      [] category = "elements" -> ConeRadius(y) + 950
      [] category = "lights" -> ConeRadius(y) + 300

\* currentRadius of lines 1053, 1250 and 1298
TargetRadius(category, y) ==
    CASE category = "ornaments" -> ConeRadius(y) + 500
      [] category = "elements" -> (ConeRadius(y) * 95) \div 100
      [] category = "lights" -> ConeRadius(y) + 300

\* targetPos of lines 1055, 1254 and 1299
TargetOnTree(category, uY, uTheta) ==
    OnCircle(TargetRadius(category, TreeY(uY)), TreeY(uY), uTheta)

\* the edge of the cube of chaos positions: 70 for ornaments (line 1050),
\* 60 for elements and lights (lines 1246, 1297)
ChaosCube(category) == IF category = "ornaments" THEN 70000 ELSE 60000

\* (Math.random() - 0.5) * edge
ChaosCoordinate(category, u) == ((u - 500) * ChaosCube(category)) \div 1000

\* the radius of the sphere of the foliage's chaos positions, line 980
ChaosSphere == [radius |-> 25000]

\* the unit vectors random.inSphere scales, in thousandths
Directions ==
    { <<1000, 0, 0>>, <<0, -1000, 0>>, <<0, 0, 1000>>, <<577, 577, 577>>,
      <<-600, 0, 800>> }

\* Math.cbrt(u), rounded to thousandths
Cbrt(u) ==
    CASE u = 0 -> 0 [] u = 125 -> 500 [] u = 250 -> 630
      [] u = 500 -> 794 [] u = 750 -> 909 [] u = 999 -> 1000

\* one point of random.inSphere(buffer, { radius }): a unit vector scaled by
\* radius * cbrt(u)
inSphere(radius, dir, u) ==
    [k \in 1..3 |-> RoundDiv(dir[k] * RoundDiv(radius * Cbrt(u), 1000), 1000)]

\* the elements a data useMemo can build for a category
Samples(category) ==
    IF category = "foliage"
    THEN { [category |-> category,
            chaosPos |-> inSphere(ChaosSphere.radius, dir, u),
            targetPos |-> getTreePosition(uY, uTheta, uR)] :
              dir \in Directions, u \in RandomValues,
              uY \in RandomValues, uTheta \in RandomValues, uR \in RandomValues }
    ELSE { [category |-> category,
            chaosPos |-> [k \in 1..3 |-> ChaosCoordinate(category, c[k])],
            targetPos |-> TargetOnTree(category, uY, uTheta)] :
              c \in [1..3 -> {0, 500, 999}],
              uY \in RandomValues, uTheta \in RandomValues }

\* an optional number of navigator
Undefined == [defined |-> FALSE, value |-> 0]
Number(n) == [defined |-> TRUE, value |-> n]

\* localStorage.getItem(QUALITY_STORAGE_KEY): null, or a string
StoredValues == { NULL, <<"HIGH">>, <<"LOW">>, <<"high">> }

\* the browser: what is stored under the key, whether getItem and setItem
\* throw, whether navigator exists, and what it reports
Browsers ==
    [stored : StoredValues, getItemThrows : BOOLEAN, setItemThrows : BOOLEAN,
     hasNavigator : BOOLEAN,
     deviceMemory : {Undefined, Number(4), Number(8)},
     hardwareConcurrency : {Undefined, Number(4), Number(8)}]

\* a browser with working storage that holds stored
WorkingBrowser(stored) ==
    [stored |-> stored, getItemThrows |-> FALSE, setItemThrows |-> FALSE,
     hasNavigator |-> TRUE, deviceMemory |-> Undefined,
     hardwareConcurrency |-> Number(8)]

\* detectDefaultQuality, lines 1750-1755
detectDefaultQuality(b) ==
    LET mem == b.deviceMemory
        cores == IF b.hardwareConcurrency.defined
                 THEN b.hardwareConcurrency.value ELSE 8
    IN  IF (mem.defined /\ mem.value <= 4) \/ cores <= 4 THEN "LOW" ELSE "HIGH"

\* mutant: the stored preset is ignored at startup
QualityAtStartupDetected(b) ==
    IF b.hasNavigator THEN detectDefaultQuality(b) ELSE "HIGH"

\* the initializer of useState<QualityPreset>, lines 1757-1769
QualityAtStartup(b) ==
    IF ~b.getItemThrows /\ b.stored \in {<<"HIGH">>, <<"LOW">>}
    THEN b.stored[1]
    ELSE IF b.hasNavigator THEN detectDefaultQuality(b) ELSE "HIGH"

\* the effect of lines 1770-1776: localStorage.setItem(key, quality),
\* ignored when it throws
AfterSetItem(b, q) == IF b.setItemThrows THEN b ELSE [b EXCEPT !.stored = <<q>>]

----------------------------------------------------------------------------
(* predictWebcam, lines 1641-1721: the values it leaves in the variables   *)
(* it writes, for one invocation that reads nowMs from the clock, finds    *)
(* the video ready or not, and gets res from the classifier.  status0 is   *)
(* aiStatus when it starts.                                                *)

\* `last`: seq flips at every invocation; kind is "idle" (early return),
\* "skipped" (no classifier call), "threw" or "processed"; nowMs, hand, pinchTest,
\* gestures and wristX are what the invocation read; pinchEvt, cmd and setPhoto are
\* the onPinch, onGesture and setSelectedPhoto calls it made; emitted is the last
\* pinch event of the run.  nowMs is in the time frame the invocation started in.
NoFrame ==
    [seq |-> 0, kind |-> "none", nowMs |-> 0, hand |-> FALSE, pinchTest |-> FALSE,
     gestures |-> << >>, wristX |-> 0, pinchEvt |-> "none", cmd |-> "none",
     setPhoto |-> "none", emitted |-> "none"]

\* an invocation that calls no callback
Quiet(kind, nowMs, lastMs, status0) ==
    [kind |-> kind, nowMs |-> nowMs, threw |-> FALSE, lastInferenceMs |-> lastMs,
     isPinchingRef |-> isPinchingRef, sceneState |-> sceneState,
     rotationSpeed |-> rotationSpeed, selectedPhoto |-> selectedPhoto,
     aiStatus |-> status0, hand |-> FALSE, pinchTest |-> FALSE, gestures |-> << >>,
     wristX |-> 0, pinchEvt |-> "none", cmd |-> "none", setPhoto |-> "none"]

\* lines 1645-1648: the early return
EarlyReturn == gestureRecognizer = "null" \/ ~videoRef

\* line 1655
WillInfer(nowMs, videoReady) ==
    /\ ~EarlyReturn
    /\ videoReady
    /\ ShouldInfer(nowMs, lastInferenceMs, PERF_PRESETS[perfRef].maxFps)

\* lines 1684-1713: a hand was detected
HandFrame(res, nowMs, randomIndex, status0) ==
    LET landmarks == res.landmarks[1]
        debug == debugModeRef
        isPinching == detectThreeFingerPinch(landmarks)
        evt == PinchEdge(isPinching, isPinchingRef)
        set == IF evt = "none" THEN [call |-> "none", value |-> NULL]
               ELSE handlePinch(evt = "start", selectedPhotoRef, randomIndex)
        photo == IF set.call = "none" THEN selectedPhoto ELSE set.value
        status1 == IF evt = "start" /\ debug
                   THEN <<"DETECTED:", "THREE", "FINGER", "PINCH">> ELSE status0
        cmd == GestureCommand(res.gestures, isPinching)
        passed == /\ Len(res.gestures) > 0
                  /\ ScoreAbove(res.gestures[1][1].score)
                  /\ ~isPinching
        status2 == IF passed /\ debug
                   THEN <<"DETECTED:", res.gestures[1][1].categoryName>> ELSE status1
    IN  [kind |-> "processed", nowMs |-> nowMs, threw |-> FALSE,
         lastInferenceMs |-> nowMs,
         isPinchingRef |-> PinchRefAfter(isPinching, isPinchingRef),
         sceneState |-> SceneAfter(cmd, sceneState),
         rotationSpeed |-> Deadzone(HandSpeed(landmarks[0].x)),
         selectedPhoto |-> photo,
         aiStatus |-> status2, hand |-> TRUE, pinchTest |-> isPinching,
         gestures |-> res.gestures, wristX |-> landmarks[0].x, pinchEvt |-> evt,
         cmd |-> cmd, setPhoto |-> set.call]

\* mutant: a frame without a hand leaves the rotation speed as it was
NoHandFrameKeepsSpeed(nowMs, status0) ==
    [Quiet("processed", nowMs, nowMs, status0) EXCEPT
        !.aiStatus = IF debugModeRef THEN <<"AI", "READY:", "NO", "HAND">> ELSE status0]

\* mutant: a frame without a hand ends the pinch and closes the photo
NoHandFrameEndsPinch(nowMs, status0) ==
    [Quiet("processed", nowMs, nowMs, status0) EXCEPT
        !.rotationSpeed = 0,
        !.isPinchingRef = FALSE,
        !.pinchEvt = IF isPinchingRef THEN "end" ELSE "none",
        !.setPhoto = IF isPinchingRef /\ Truthy(selectedPhotoRef) THEN "null" ELSE "none",
        !.selectedPhoto = IF isPinchingRef /\ Truthy(selectedPhotoRef) THEN NULL
                          ELSE selectedPhoto,
        !.aiStatus = IF debugModeRef THEN <<"AI", "READY:", "NO", "HAND">> ELSE status0]

\* lines 1714-1717: no hand
NoHandFrame(nowMs, status0) ==
    [Quiet("processed", nowMs, nowMs, status0) EXCEPT
        !.rotationSpeed = 0,
        !.aiStatus = IF debugModeRef THEN <<"AI", "READY:", "NO", "HAND">> ELSE status0]

predictWebcam(res, nowMs, videoReady, randomIndex, status0) ==
    IF EarlyReturn THEN Quiet("idle", nowMs, lastInferenceMs, status0)
    ELSE IF ~WillInfer(nowMs, videoReady)
    THEN Quiet("skipped", nowMs, lastInferenceMs, status0)
    ELSE IF res.threw
    THEN [Quiet("threw", nowMs, nowMs, status0) EXCEPT !.threw = TRUE]
    ELSE IF Len(res.landmarks) > 0
    THEN HandFrame(res, nowMs, randomIndex, status0)
    ELSE NoHandFrame(nowMs, status0)

\* the record of an invocation kept in `last`
Recorded(out) ==
    [seq |-> 1 - last.seq, kind |-> out.kind, nowMs |-> out.nowMs, hand |-> out.hand,
     pinchTest |-> out.pinchTest, gestures |-> out.gestures, wristX |-> out.wristX,
     pinchEvt |-> out.pinchEvt, cmd |-> out.cmd, setPhoto |-> out.setPhoto,
     emitted |-> IF out.pinchEvt = "none" THEN last.emitted ELSE out.pinchEvt]

\* the inputs an invocation reads, when the classifier answers with one of
\* results
ResultsReadFrom(results, nowMs, videoReady) ==
    IF WillInfer(nowMs, videoReady) THEN results ELSE {NoHand}

ResultsRead(nowMs, videoReady) == ResultsReadFrom(Results, nowMs, videoReady)

ErrorsRead(res) == IF res.threw THEN ErrMessages ELSE { << >> }

IndexesRead(res) ==
    IF /\ ~res.threw
       /\ Len(res.landmarks) > 0
       /\ detectThreeFingerPinch(res.landmarks[1])
       /\ ~isPinchingRef
       /\ ~Truthy(selectedPhotoRef)
    THEN RandomIndexes ELSE {0}

----------------------------------------------------------------------------
(* State after GrandTreeApp and GestureController have rendered once,      *)
(* before the effect that calls setup() has run.                           *)

\* the props of Experience for a render with these state values
Rendered(state, speed) ==
    [sceneState |-> state, rotationSpeed |-> speed,
     autoRotate |-> AutoRotate(speed, state)]

\* The state after the first render in browser b0, following instance i of
\* the mounted pools: the quality is read (lines 1757-1769) and written back
\* (lines 1770-1776).
Start(b0, i) ==
    LET q == QualityAtStartup(b0)
    IN  [sceneState |-> "CHAOS", rotationSpeed |-> 0,
         aiStatus |-> <<"INITIALIZING...">>, selectedPhoto |-> NULL,
         quality |-> q, debugMode |-> FALSE,
         experience |-> Rendered("CHAOS", 0), pools |-> MountPools(q),
         instance |-> i, browser |-> AfterSetItem(b0, q)]

InitWith(b0, i) ==
    \E st \in {Start(b0, i)} :
        /\ sceneState = st.sceneState
        /\ rotationSpeed = st.rotationSpeed
        /\ aiStatus = st.aiStatus
        /\ selectedPhoto = st.selectedPhoto
        /\ selectedPhotoRef = st.selectedPhoto
        /\ quality = st.quality
        /\ debugMode = st.debugMode
        /\ debugModeRef = st.debugMode
        /\ perfRef = st.quality
        /\ isPinchingRef = FALSE
        /\ videoRef = TRUE
        /\ pc = "idle"
        /\ gestureRecognizer = "null"
        /\ stream = "null"
        /\ lastInferenceMs = 0
        /\ requestRef = FALSE
        /\ rafPending = 0
        /\ recognizerRes = "none"
        /\ tracks = "none"
        /\ tornDown = FALSE
        /\ last = NoFrame
        /\ experience = st.experience
        /\ pools = st.pools
        /\ instance = st.instance
        /\ browser = st.browser
        /\ sample = NoSample

\* a browser with working storage, which holds the preset of an earlier
\* session; the followed instance is not animated
Init ==
    \E q \in {"HIGH", "LOW"} :
        InitWith(WorkingBrowser(<<q>>), NewInstance("foliage", 1, 125))

appVars == << sceneState, rotationSpeed, selectedPhoto >>
sceneVars == << pools, instance, browser, sample >>
uiVars == << quality, debugMode, debugModeRef, perfRef, selectedPhotoRef, experience,
            sceneVars >>
loopVars == << isPinchingRef, lastInferenceMs, requestRef, rafPending, last >>
resVars == << gestureRecognizer, stream, recognizerRes, tracks >>

----------------------------------------------------------------------------
(* setup(), lines 1593-1639, one action per await.                         *)

\* the effect runs: setup() up to the await of FilesetResolver.forVisionTasks
SetupStart ==
    /\ pc = "idle"
    /\ aiStatus' = <<"DOWNLOADING", "AI...">>
    /\ pc' = "vision"
    /\ UNCHANGED << appVars, uiVars, loopVars, resVars, videoRef, tornDown >>

\* forVisionTasks resolved: createWithDelegate(preferred) is awaited
VisionResolved ==
    /\ pc = "vision"
    /\ pc' = IF PERF_PRESETS[perfRef].preferredDelegate = "GPU"
             THEN "createGPU" ELSE "createCPU"
    /\ UNCHANGED << aiStatus, appVars, uiVars, loopVars, resVars, videoRef, tornDown >>

\* forVisionTasks rejected: the outer catch
VisionRejected ==
    /\ pc = "vision"
    /\ \E m \in ErrMessages : aiStatus' = ErrorStatus(m)
    /\ pc' = "failedVision"
    /\ UNCHANGED << appVars, uiVars, loopVars, resVars, videoRef, tornDown >>

\* a createWithDelegate resolved; lines 1621-1635 up to the next await
CreateResolved ==
    /\ pc \in {"createGPU", "createCPU", "fallbackCPU"}
    /\ gestureRecognizer' = "rec"
    /\ recognizerRes' = "open"
    /\ \E hasMediaDevices \in BOOLEAN :
          IF hasMediaDevices
          THEN /\ aiStatus' = <<"REQUESTING", "CAMERA...">>
               /\ pc' = "camera"
          ELSE /\ aiStatus' = <<"ERROR:", "CAMERA", "PERMISSION", "DENIED">>
               /\ pc' = "noMediaDevices"
    /\ UNCHANGED << appVars, uiVars, loopVars, stream, tracks, videoRef, tornDown >>

\* mutant: a failed GPU delegate is reported at once, with no retry
CreateRejectedGPUNoRetry ==
    /\ pc = "createGPU"
    /\ \E m \in ErrMessages : aiStatus' = ErrorStatus(m)
    /\ pc' = "failedCreate"
    /\ UNCHANGED << appVars, uiVars, loopVars, resVars, videoRef, tornDown >>

\* the preferred GPU delegate failed: retry with CPU
CreateRejectedGPU ==
    /\ pc = "createGPU"
    /\ aiStatus' = <<"GPU", "unavailable,", "switched", "to", "CPU">>
    /\ pc' = "fallbackCPU"
    /\ UNCHANGED << appVars, uiVars, loopVars, resVars, videoRef, tornDown >>

\* the CPU delegate failed (preferred or fallback): the outer catch
CreateRejectedCPU ==
    /\ pc \in {"createCPU", "fallbackCPU"}
    /\ \E m \in ErrMessages : aiStatus' = ErrorStatus(m)
    /\ pc' = "failedCreate"
    /\ UNCHANGED << appVars, uiVars, loopVars, resVars, videoRef, tornDown >>

\* getUserMedia resolved; lines 1624-1627 up to the await of play()
CameraResolved ==
    /\ pc = "camera"
    /\ stream' = "stream"
    /\ tracks' = "live"
    /\ pc' = IF videoRef THEN "play" ELSE "noVideo"
    /\ UNCHANGED << aiStatus, appVars, uiVars, loopVars, gestureRecognizer,
                    recognizerRes, videoRef, tornDown >>

\* mutant: a rejected camera request is swallowed without a status
CameraRejectedSilent ==
    /\ pc = "camera"
    /\ pc' = "failedCamera"
    /\ UNCHANGED << aiStatus, appVars, uiVars, loopVars, resVars, videoRef, tornDown >>

\* getUserMedia rejected: the outer catch
CameraRejected ==
    /\ pc = "camera"
    /\ \E m \in ErrMessages : aiStatus' = ErrorStatus(m)
    /\ pc' = "failedCamera"
    /\ UNCHANGED << appVars, uiVars, loopVars, resVars, videoRef, tornDown >>

\* what one invocation of predictWebcam leaves behind; it reschedules itself
\* at line 1646 or 1720 unless the classifier threw
Invocation(out, pendingBefore) ==
    /\ lastInferenceMs' = IF out.kind \in {"processed", "threw"}
                          THEN Rebase(out.lastInferenceMs, out.nowMs)
                          ELSE out.lastInferenceMs
    /\ isPinchingRef' = out.isPinchingRef
    /\ sceneState' = out.sceneState
    /\ rotationSpeed' = out.rotationSpeed
    /\ selectedPhoto' = out.selectedPhoto
    /\ last' = Recorded(out)
    /\ rafPending' = IF out.threw THEN pendingBefore ELSE pendingBefore + 1
    /\ requestRef' = IF out.threw THEN requestRef /\ pendingBefore = rafPending
                     ELSE TRUE

\* play() settled (a rejection is swallowed): lines 1630-1631, the status and
\* the first, synchronous call of predictWebcam inside the try
PlaySettled ==
    /\ pc = "play"
    /\ \E nowMs \in NowValues, videoReady \in BOOLEAN :
       \E res \in ResultsRead(nowMs, videoReady) :
       \E randomIndex \in IndexesRead(res), m \in ErrorsRead(res) :
       \E out \in {predictWebcam(res, nowMs, videoReady, randomIndex,
                                 <<"AI", "READY:", "SHOW", "HAND">>)} :
              /\ Invocation(out, rafPending)
              /\ aiStatus' = IF out.threw THEN ErrorStatus(m) ELSE out.aiStatus
              /\ pc' = IF out.threw THEN "failedFirstFrame" ELSE "running"
    /\ UNCHANGED << uiVars, resVars, videoRef, tornDown >>

----------------------------------------------------------------------------
(* The inference loop: the browser runs a pending predictWebcam callback.  *)

\* a callback that reads one of the instants nows and, from the classifier,
\* one of results
RafCallbackOn(nows, results) ==
    /\ rafPending > 0
    /\ \E nowMs \in nows, videoReady \in BOOLEAN :
       \E res \in ResultsReadFrom(results, nowMs, videoReady) :
       \E randomIndex \in IndexesRead(res) :
       \E out \in {predictWebcam(res, nowMs, videoReady, randomIndex, aiStatus)} :
              /\ Invocation(out, rafPending - 1)
              /\ aiStatus' = out.aiStatus
    /\ UNCHANGED << uiVars, resVars, videoRef, tornDown, pc >>

RafCallback == RafCallbackOn(NowValues, Results)

----------------------------------------------------------------------------
(* The effect cleanup, lines 1723-1736.  The effect's dependencies (line  *)
(* 1737) are state setters and a useCallback with no dependencies, so the  *)
(* cleanup runs when the component unmounts, after its refs are detached.  *)

Teardown ==
    /\ pc # "idle"
    /\ ~tornDown
    /\ tornDown' = TRUE
    /\ rafPending' = IF requestRef THEN rafPending - 1 ELSE rafPending
    /\ requestRef' = FALSE
    /\ tracks' = IF stream # "null" THEN "stopped" ELSE tracks
    /\ recognizerRes' = IF gestureRecognizer # "null" THEN "closed" ELSE recognizerRes
    /\ gestureRecognizer' = "null"
    /\ videoRef' = FALSE
    /\ UNCHANGED << aiStatus, appVars, uiVars, isPinchingRef, lastInferenceMs, last,
                    stream, pc >>

----------------------------------------------------------------------------
(* GrandTreeApp: renders and user actions.                                 *)

\* GrandTreeApp renders with the current state: line 1788, and the effects
\* of lines 1574-1581 that follow the commit
\* mutant: debugMode and perf are dependencies of the effect that sets up
\* the pipeline
EffectDepsWithProps ==
    {"onGesture", "onMove", "onStatus", "onPinch", "debugMode", "perf"}

\* the dependencies of the effect that sets up the pipeline, line 1737
EffectDeps == {"onGesture", "onMove", "onStatus", "onPinch"}

\* the props of GestureController that differ from the last render's: the
\* state setters and handlePinch (a useCallback without dependencies) never do
ChangedProps ==
    (IF debugModeRef # debugMode THEN {"debugMode"} ELSE {})
        \cup (IF perfRef # quality THEN {"perf"} ELSE {})

RenderFollowing(instances) ==
    /\ videoRef
    /\ << selectedPhotoRef, debugModeRef, perfRef, experience >>
          # << selectedPhoto, debugMode, quality, Rendered(sceneState, rotationSpeed) >>
    /\ selectedPhotoRef' = selectedPhoto
    /\ debugModeRef' = debugMode
    /\ perfRef' = quality
    /\ experience' = Rendered(sceneState, rotationSpeed)
    \* key={quality}, line 1811: a new key mounts a new Canvas
    /\ pools' = Remount(quality, pools)
    /\ IF pools' # pools
       THEN instance' \in instances
       ELSE instance' = instance
    \* the effect of lines 1770-1776 runs when quality has changed
    /\ browser' = IF perfRef # quality THEN AfterSetItem(browser, quality) ELSE browser
    \* and the data of the new pools is built anew
    /\ sample' = IF pools' # pools THEN NoSample ELSE sample
    \* the effect of lines 1582-1737 is cleaned up and run again only when one
    \* of its dependencies has changed
    /\ IF ChangedProps \cap EffectDeps # {}
       THEN /\ rafPending' = IF requestRef THEN rafPending - 1 ELSE rafPending
            /\ requestRef' = FALSE
            /\ tracks' = IF stream # "null" THEN "stopped" ELSE tracks
            /\ recognizerRes' = IF gestureRecognizer # "null" THEN "closed"
                                ELSE recognizerRes
            /\ gestureRecognizer' = "null"
            /\ stream' = "null"
            /\ lastInferenceMs' = 0
            /\ pc' = "idle"
            /\ UNCHANGED << isPinchingRef, last, tornDown >>
       ELSE UNCHANGED << loopVars, resVars, tornDown, pc >>
    /\ UNCHANGED << aiStatus, appVars, quality, debugMode, videoRef >>

\* a new Canvas is followed at the first or last instance of any category
Render == RenderFollowing(NewInstances(Remount(quality, pools)))

\* click on the overlay, which exists when the last render had a photo
closePhotoOverlay ==
    /\ videoRef
    /\ Truthy(selectedPhotoRef)
    /\ selectedPhoto' = NULL
    /\ UNCHANGED << aiStatus, sceneState, rotationSpeed, uiVars, loopVars, resVars,
                    videoRef, tornDown, pc >>

\* the mode button, line 1866
ToggleMode ==
    /\ videoRef
    /\ sceneState' = FlipMode(sceneState)
    /\ UNCHANGED << aiStatus, rotationSpeed, selectedPhoto, uiVars, loopVars,
                    resVars, videoRef, tornDown, pc >>

\* the debug button, line 1863
ToggleDebug ==
    /\ videoRef
    /\ debugMode' = ~debugMode
    /\ UNCHANGED << aiStatus, appVars, quality, debugModeRef, perfRef,
                    selectedPhotoRef, experience, sceneVars, loopVars, resVars,
                    videoRef, tornDown, pc >>

\* the quality button, line 1847
ToggleQuality ==
    /\ videoRef
    /\ quality' = FlipQuality(quality)
    /\ UNCHANGED << aiStatus, appVars, debugMode, debugModeRef, perfRef,
                    selectedPhotoRef, experience, sceneVars, loopVars, resVars,
                    videoRef, tornDown, pc >>

----------------------------------------------------------------------------
(* The render loop: one frame runs the useFrame callback of the followed   *)
(* instance's component with the props of the last render.                 *)

\* morphProgressRef.current[i] as line 1104 reads it from an array of
\* length len: a slot the array does not have is undefined, NaN to damp,
\* unless an earlier frame has written it
ReadSlot(i, len) ==
    IF i.index <= len \/ i.morphProgress = NaN THEN i.morphProgress ELSE NaN

\* the followed instance after a frame of deltaMs in mode state, with
\* morphProgressRef.current of length len
FrameUpdate(i, state, deltaMs, len) ==
    LET isFormed == state = "FORMED"
        target == IF isFormed THEN i.targetPos ELSE i.chaosPos
        targetProgress == IF isFormed THEN ProgressUnits ELSE 0
    IN  CASE i.category = "foliage" ->          \* lines 989-995
               [i EXCEPT !.uProgress = Damp(@, targetProgress, 150, deltaMs)]
          [] i.category = "ornaments" ->        \* lines 1097-1113
               [i EXCEPT !.morphProgress =
                             DampJS(ReadSlot(i, len), targetProgress, 200, deltaMs),
                         !.currentPos =
                             Lerp(@, target,
                                  Alpha(Rate("ornaments", i.weight, isFormed), deltaMs))]
          [] OTHER ->                           \* lines 1269-1274, 1311-1316
               [i EXCEPT !.currentPos =
                             Lerp(@, target,
                                  Alpha(Rate(i.category, i.weight, isFormed), deltaMs))]

Frame ==
    /\ videoRef
    /\ instance.index \in 1..pools[instance.category]
    /\ \E deltaMs \in DeltaValues :
          /\ instance' = FrameUpdate(instance, experience.sceneState, deltaMs,
                                     pools.morphProgress)
          /\ Abs(instance'.currentPos) <= MaxPos
    /\ UNCHANGED << aiStatus, appVars, quality, debugMode, debugModeRef, perfRef,
                    selectedPhotoRef, experience, pools, browser, sample, loopVars, resVars,
                    videoRef, tornDown, pc >>

\* the effect of lines 1027-1030, which React runs some time after the
\* commit that mounted PhotoOrnaments: a new array of count zeros
MorphEffect ==
    /\ videoRef
    /\ pools.morphProgress # pools.ornaments
    /\ pools' = [pools EXCEPT !.morphProgress = pools.ornaments]
    /\ instance' = IF instance.category = "ornaments"
                   THEN [instance EXCEPT !.morphProgress = 0] ELSE instance
    /\ UNCHANGED << aiStatus, appVars, quality, debugMode, debugModeRef, perfRef,
                    selectedPhotoRef, experience, browser, sample, loopVars,
                    resVars, videoRef, tornDown, pc >>

\* the data useMemo of a pool component of the mounted Canvas builds one
\* element, once: lines 977-988, 1048-1090, 1244-1264, 1295-1305
Populate ==
    /\ videoRef
    /\ sample = NoSample
    /\ \E c \in Categories : sample' \in Samples(c)
    /\ UNCHANGED << aiStatus, appVars, quality, debugMode, debugModeRef, perfRef,
                    selectedPhotoRef, experience, pools, instance, browser,
                    loopVars, resVars, videoRef, tornDown, pc >>

----------------------------------------------------------------------------
(* The page is loaded again: GrandTreeApp starts afresh in the browser as  *)
(* the previous session left it.                                           *)

Reload ==
    \E st \in {Start(browser, NewInstance("foliage", 1, 125))} :
        /\ sceneState' = st.sceneState
        /\ rotationSpeed' = st.rotationSpeed
        /\ aiStatus' = st.aiStatus
        /\ selectedPhoto' = st.selectedPhoto
        /\ selectedPhotoRef' = st.selectedPhoto
        /\ quality' = st.quality
        /\ debugMode' = st.debugMode
        /\ debugModeRef' = st.debugMode
        /\ perfRef' = st.quality
        /\ isPinchingRef' = FALSE
        /\ videoRef' = TRUE
        /\ pc' = "idle"
        /\ gestureRecognizer' = "null"
        /\ stream' = "null"
        /\ lastInferenceMs' = 0
        /\ requestRef' = FALSE
        /\ rafPending' = 0
        /\ recognizerRes' = "none"
        /\ tracks' = "none"
        /\ tornDown' = FALSE
        /\ last' = NoFrame
        /\ experience' = st.experience
        /\ pools' = st.pools
        /\ instance' = st.instance
        /\ browser' = st.browser
        /\ sample' = NoSample

Next ==
    \/ SetupStart
    \/ VisionResolved
    \/ VisionRejected
    \/ CreateResolved
    \/ CreateRejectedGPU
    \/ CreateRejectedCPU
    \/ CameraResolved
    \/ CameraRejected
    \/ PlaySettled
    \/ RafCallback
    \/ Teardown
    \/ Render
    \/ closePhotoOverlay
    \/ ToggleMode

Spec == Init /\ [][Next]_vars

\* The gesture pipeline under the debug and quality buttons: the classifier
\* sees no hand, a fist, an open palm or a pinch, at the inference rate.
PipelineResults ==
    { NoHand,
      [threw |-> FALSE, landmarks |-> <<OpenHand(660)>>,
       gestures |-> << <<Category("Closed_Fist", 90)>> >>],
      [threw |-> FALSE, landmarks |-> <<OpenHand(660)>>,
       gestures |-> << <<Category("Open_Palm", 41), Category("None", 30)>> >>],
      [threw |-> FALSE, landmarks |-> <<PinchedHand(860)>>,
       gestures |-> << <<Category("Closed_Fist", 90)>> >>] }

PipelineNext ==
    \/ SetupStart
    \/ VisionResolved
    \/ CreateResolved
    \/ CameraResolved
    \/ PlaySettled
    \/ RafCallbackOn({Epoch + MaxTicks * StepMs}, PipelineResults)
    \/ RenderFollowing({NewInstance("foliage", 1, 125)})
    \/ ToggleDebug
    \/ ToggleQuality

PipelineSpec == Init /\ [][PipelineNext]_vars

\* The selected photo under every button and the inference loop.
PhotoNext ==
    \/ SetupStart
    \/ VisionResolved
    \/ CreateResolved
    \/ CameraResolved
    \/ PlaySettled
    \/ RafCallbackOn({Epoch + MaxTicks * StepMs}, PipelineResults)
    \/ RenderFollowing({NewInstance("foliage", 1, 125)})
    \/ closePhotoOverlay
    \/ ToggleMode
    \/ ToggleDebug
    \/ ToggleQuality

PhotoSpec == Init /\ [][PhotoNext]_vars

----------------------------------------------------------------------------
(* The scene under the two buttons and the render loop, with the gesture   *)
(* controller not yet set up.                                              *)

SceneInit ==
    \E q \in {"HIGH", "LOW"} :
    \E i \in NewInstances(MountPools(q)) :
        InitWith(WorkingBrowser(<<q>>), i)

SceneNext ==
    \/ ToggleMode
    \/ ToggleQuality
    \/ Render
    \/ MorphEffect
    \/ Frame

SceneSpec == SceneInit /\ [][SceneNext]_vars

\* requestAnimationFrame keeps delivering frames, and React renders every
\* update it has been given and runs every effect it has scheduled
FairSceneSpec ==
    SceneSpec /\ WF_vars(Frame) /\ WF_vars(Render) /\ WF_vars(MorphEffect)

----------------------------------------------------------------------------
(* The quality preset across sessions, in any browser.                     *)

PersistInit ==
    \E b0 \in Browsers : InitWith(b0, NewInstance("foliage", 1, 125))

PersistNext ==
    \/ ToggleQuality
    \/ Render
    \/ Reload

PersistSpec == PersistInit /\ [][PersistNext]_vars

\* The population of the pools: elements are built, for either preset.
PopulateNext ==
    \/ Populate
    \/ ToggleQuality
    \/ Render

PopulateSpec == Init /\ [][PopulateNext]_vars

----------------------------------------------------------------------------
(* Properties.                                                             *)

\* a step in which predictWebcam ran
FrameStep == last'.seq # last.seq

\* a step in which predictWebcam ran, found a hand and processed the frame
HandStep == FrameStep /\ last'.kind = "processed" /\ last'.hand

\* the top classification of the last frame, when there is one
Top(frame) == frame.gestures[1][1]

PhotoSet == {PHOTO_PATHS.body[i] : i \in 1..Len(PHOTO_PATHS.body)}

\* C1: on a frame with a hand, onPinch(true) is called exactly when the pinch
\* test is true and PinchState was false, onPinch(false) exactly when the test is
\* false and PinchState was true, nothing when they agree; PinchState then equals
\* the test, and the events of a run alternate, beginning with a start.
C1_PinchEdges ==
    [][HandStep =>
        /\ (last'.pinchEvt = "start") <=> (last'.pinchTest /\ ~isPinchingRef)
        /\ (last'.pinchEvt = "end") <=> (~last'.pinchTest /\ isPinchingRef)
        /\ (last'.pinchTest = isPinchingRef) => (last'.pinchEvt = "none")
        /\ isPinchingRef' = last'.pinchTest
        /\ (last'.pinchEvt = "start") => (last.emitted \in {"none", "end"})
        /\ (last'.pinchEvt = "end") => (last.emitted = "start")]_vars

\* a frame inside a sustained pinch: the test is true and no event is emitted
C1_Witness ==
    /\ last.kind = "processed" /\ last.hand
    /\ last.pinchTest /\ last.pinchEvt = "none" /\ last.emitted = "start"

\* C2: on a frame with a hand and no pinch, onGesture is called iff the top
\* score is above 0.4 and the label is Open_Palm (CHAOS) or Closed_Fist (FORMED);
\* otherwise no command is issued and sceneState is unchanged.
C2_GestureMapping ==
    [][(HandStep /\ ~last'.pinchTest) =>
        LET g == last'.gestures
            mapped == /\ Len(g) > 0
                      /\ Top(last').score > 40
                      /\ Top(last').categoryName \in {"Open_Palm", "Closed_Fist"}
        IN  /\ (last'.cmd # "none") <=> mapped
            /\ mapped => /\ last'.cmd = IF Top(last').categoryName = "Open_Palm"
                                         THEN "CHAOS" ELSE "FORMED"
                         /\ sceneState' = last'.cmd
            /\ ~mapped => sceneState' = sceneState]_vars

\* Open_Palm at exactly 0.4 with no pinch: no command
C2_Witness ==
    /\ last.kind = "processed" /\ last.hand /\ ~last.pinchTest
    /\ Len(last.gestures) > 0
    /\ Top(last) = Category("Open_Palm", 40)
    /\ last.cmd = "none"
    /\ sceneState = "FORMED"

\* C3: on a frame whose pinch test is true no command is issued and sceneState
\* is unchanged, whatever the classification.
C3_PinchPriority ==
    [][(HandStep /\ last'.pinchTest) =>
        (last'.cmd = "none" /\ sceneState' = sceneState)]_vars

\* a confident Closed_Fist classified while pinching, in CHAOS
C3_Witness ==
    /\ last.kind = "processed" /\ last.hand /\ last.pinchTest
    /\ Len(last.gestures) > 0
    /\ Top(last) = Category("Closed_Fist", 90)
    /\ last.cmd = "none"
    /\ sceneState = "CHAOS"

\* C4: a pinch start delivered while a photo is displayed selects nothing and
\* leaves selectedPhoto as it was; a photo is selected only by a pinch start
\* that follows no start (so once per pinch episode at most); what is displayed
\* is no photo or one photo of the set.
C4_SingleFlight ==
    /\ [](selectedPhotoRef = NULL \/ selectedPhotoRef \in PhotoSet)
    /\ [][/\ (FrameStep /\ last'.pinchEvt = "start" /\ Truthy(selectedPhotoRef)) =>
                (last'.setPhoto = "none" /\ selectedPhoto' = selectedPhoto)
          /\ (FrameStep /\ last'.setPhoto = "path") =>
                /\ last'.pinchEvt = "start"
                /\ last.emitted # "start"
                /\ ~Truthy(selectedPhotoRef)
                /\ selectedPhoto' \in PhotoSet]_vars

\* a pinch start was delivered with a photo on display and selected nothing
C4_Witness ==
    /\ last.pinchEvt = "start" /\ last.setPhoto = "none"
    /\ Truthy(selectedPhotoRef) /\ selectedPhoto = selectedPhotoRef

\* C5: a pinch end delivered while a photo is displayed sets selectedPhoto to
\* none; one delivered while none is displayed leaves it alone; the click on the
\* overlay sets it to none, and nothing else but the inference loop writes it.
C5_OverlayClose ==
    [][/\ (FrameStep /\ last'.pinchEvt = "end" /\ Truthy(selectedPhotoRef)) =>
             (last'.setPhoto = "null" /\ selectedPhoto' = NULL)
       /\ (FrameStep /\ last'.pinchEvt = "end" /\ ~Truthy(selectedPhotoRef)) =>
             (last'.setPhoto = "none" /\ selectedPhoto' = selectedPhoto)
       /\ closePhotoOverlay => selectedPhoto' = NULL
       /\ (~FrameStep /\ selectedPhoto' # selectedPhoto) =>
             (Truthy(selectedPhotoRef) /\ selectedPhoto' = NULL)]_vars

\* a pinch end closed the photo that is still on display
C5_Witness ==
    /\ last.pinchEvt = "end" /\ last.setPhoto = "null"
    /\ Truthy(selectedPhotoRef) /\ selectedPhoto = NULL

\* C6: after an invocation in which the classifier threw, the next callback
\* is still scheduled (as long as the controller is not torn down).
C6_LoopSurvivesThrow ==
    (last.kind = "threw" /\ ~tornDown) => rafPending > 0

\* C7: once the cleanup has run, the tracks are stopped, the classifier is
\* closed and no inference callback is pending.
C7_TeardownReleases ==
    tornDown => (tracks # "live" /\ recognizerRes # "open" /\ rafPending = 0)

\* C8: after classifier creation has failed the status begins with "ERROR:",
\* no classifier exists, predictWebcam has never run and none is pending,
\* rotationSpeed is 0; from then on the status, rotationSpeed and the loop's
\* record never change, the failure leaves sceneState alone and afterwards only
\* the mode button changes it.
C8_CreateFailureTerminal ==
    /\ [](pc = "failedCreate" =>
            /\ Len(aiStatus) > 0 /\ aiStatus[1] = "ERROR:"
            /\ recognizerRes = "none" /\ gestureRecognizer = "null"
            /\ last = NoFrame /\ rafPending = 0
            /\ rotationSpeed = 0 /\ ~isPinchingRef /\ selectedPhoto = NULL)
    /\ [][/\ (pc' = "failedCreate" /\ pc # "failedCreate") => sceneState' = sceneState
          /\ pc = "failedCreate" =>
                /\ pc' = pc /\ aiStatus' = aiStatus /\ last' = last
                /\ (sceneState' # sceneState => ToggleMode)]_vars

\* GPU preferred, the CPU fallback failed too
C8_Witness ==
    /\ pc = "failedCreate" /\ perfRef = "HIGH"
    /\ aiStatus = <<"ERROR:", "MODEL", "FAILED">>

\* C9: the classifier is called only when at least the interval (1000 / maxFps
\* ms) has passed on the clock since its previous call; an invocation that comes
\* sooner calls nothing, leaves sceneState, rotationSpeed, PinchState and
\* selectedPhoto alone and leaves exactly one callback pending.
C9_RateLimit ==
    [][FrameStep =>
        LET targetFps == PERF_PRESETS[perfRef].maxFps
            perSecond == IF targetFps > 0 THEN targetFps ELSE 15
            called == last'.kind \in {"processed", "threw"}
            early == (last'.nowMs - lastInferenceMs) * perSecond < 1000
        IN  /\ called => (~early /\ lastInferenceMs' = Rebase(last'.nowMs, last'.nowMs))
            /\ ~called => lastInferenceMs' = lastInferenceMs
            /\ early => /\ ~called
                        /\ UNCHANGED << sceneState, rotationSpeed, isPinchingRef,
                                        selectedPhoto >>
                        /\ last'.pinchEvt = "none" /\ last'.cmd = "none"
                        /\ rafPending' = 1]_vars

\* at 15 inferences a second, an invocation one step after a classifier call
C9_Witness ==
    /\ last.kind = "skipped" /\ lastInferenceMs = Epoch
    /\ last.nowMs = Epoch + StepMs
    /\ perfRef = "LOW"
    /\ rafPending = 1

\* C10: on a frame with a hand rotationSpeed becomes (0.5 - wristX) * 0.15 when
\* that exceeds 0.01 in magnitude and 0 otherwise: 0.009 gives 0, 0.011 stays.
C10_Deadzone ==
    [][HandStep =>
        LET \* the derived speed is num / den, in 1/SpeedUnits
            num == (XUnits \div 2 - last'.wristX) * 15 * SpeedUnits
            den == 100 * XUnits
            hundredth == SpeedUnits \div 100
        IN  /\ (num > hundredth * den \/ num < -hundredth * den) =>
                  rotationSpeed' * den = num
            /\ (num <= hundredth * den /\ num >= -hundredth * den) =>
                  rotationSpeed' = 0
            \* 0.009 and 0.011 are 9 and 11 tenths of a hundredth
            /\ num * 10 = 9 * hundredth * den => rotationSpeed' = 0
            /\ num * 10 = 11 * hundredth * den =>
                  rotationSpeed' * 10 = 11 * hundredth]_vars

\* a frame with a hand whose derived speed is 0.009: rotationSpeed is 0
C10_Witness ==
    /\ last.kind = "processed" /\ last.hand
    /\ last.wristX = 660
    /\ rotationSpeed = 0

\* C11: a processed frame in which the classifier reports no hand sets
\* rotationSpeed to 0 whatever it was, and leaves sceneState and selectedPhoto
\* (and PinchState) as they were.
C11_NoHandNoRotation ==
    [][(FrameStep /\ last'.kind = "processed" /\ ~last'.hand) =>
        /\ rotationSpeed' = 0
        /\ sceneState' = sceneState
        /\ selectedPhoto' = selectedPhoto
        /\ last'.cmd = "none" /\ last'.pinchEvt = "none" /\ last'.setPhoto = "none"]_vars

\* the hand was lost in the middle of a pinch that shows a photo
C11_Witness ==
    /\ last.kind = "processed" /\ ~last.hand
    /\ rotationSpeed = 0
    /\ isPinchingRef /\ Truthy(selectedPhoto)

\* C12: a failed creation with the preferred GPU delegate is followed by one
\* retry with CPU and reports no error; if the retry succeeds setup goes on to
\* the camera request; an error is reported only when the CPU delegate
\* (preferred or fallback) fails, and a failed CPU creation is not retried.
C12_DelegateFallback ==
    [][/\ (pc = "vision" /\ pc' # pc /\ pc' # "failedVision") =>
             pc' = IF PERF_PRESETS[perfRef].preferredDelegate = "GPU"
                   THEN "createGPU" ELSE "createCPU"
       /\ pc = "createGPU" =>
             /\ pc' \in {"createGPU", "fallbackCPU", "camera", "noMediaDevices"}
             /\ pc' = "fallbackCPU" =>
                   /\ aiStatus'[1] # "ERROR:"
                   /\ gestureRecognizer' = "null" /\ recognizerRes' = recognizerRes
       /\ pc = "fallbackCPU" =>
             /\ pc' \in {"fallbackCPU", "camera", "noMediaDevices", "failedCreate"}
             /\ pc' = "camera" =>
                   /\ aiStatus' = <<"REQUESTING", "CAMERA...">>
                   /\ gestureRecognizer' = "rec" /\ recognizerRes' = "open"
       /\ pc = "createCPU" =>
             pc' \in {"createCPU", "camera", "noMediaDevices", "failedCreate"}
       /\ (pc' = "failedCreate" /\ pc # "failedCreate") =>
             /\ pc \in {"createCPU", "fallbackCPU"}
             /\ aiStatus'[1] = "ERROR:"
             /\ gestureRecognizer' = "null"]_vars

\* the GPU delegate has failed and the CPU retry is in flight
C12_Witness ==
    /\ pc = "fallbackCPU" /\ perfRef = "HIGH"
    /\ aiStatus = <<"GPU", "unavailable,", "switched", "to", "CPU">>
    /\ gestureRecognizer = "null"

\* C13: when the camera stream cannot be obtained (getUserMedia rejects, or
\* the media API is absent) the status begins with "ERROR", predictWebcam has
\* never run and no callback is pending, now and ever after, and the mode
\* button still flips sceneState while the app is mounted.
C13_CameraFailure ==
    /\ [](pc \in {"failedCamera", "noMediaDevices"} =>
            /\ Len(aiStatus) > 0 /\ aiStatus[1] = "ERROR:"
            /\ last = NoFrame /\ rafPending = 0 /\ ~requestRef
            /\ tracks = "none" /\ rotationSpeed = 0
            /\ (videoRef => ENABLED ToggleMode))
    /\ [][(pc \in {"failedCamera", "noMediaDevices"}) =>
            /\ pc' = pc /\ aiStatus' = aiStatus /\ last' = last
            /\ (ToggleMode => sceneState' # sceneState)]_vars

\* the camera request was rejected and the mode button has formed the tree
C13_Witness ==
    /\ pc = "failedCamera"
    /\ aiStatus = <<"ERROR:", "Failed", "to", "fetch">>
    /\ sceneState = "FORMED" /\ ~tornDown

\* C16: a frame that issues a command leaves sceneState equal to the command,
\* whatever the mode was and whatever the mode button did since the last
\* frame; a repeated command changes nothing, the opposite command flips the
\* mode, on every such frame.
C16_CommandsUnconditional ==
    [][(FrameStep /\ last'.cmd # "none") =>
        /\ last'.cmd \in {"CHAOS", "FORMED"}
        /\ sceneState' = last'.cmd
        /\ (sceneState = last'.cmd => sceneState' = sceneState)
        /\ (sceneState # last'.cmd => sceneState' # sceneState)]_vars

\* Open_Palm commanded CHAOS while the last render still shows FORMED
C16_Witness ==
    /\ last.kind = "processed" /\ last.cmd = "CHAOS"
    /\ Top(last).categoryName = "Open_Palm"
    /\ sceneState = "CHAOS" /\ experience.sceneState = "FORMED"

\* C17: the mode button is enabled whenever the app is mounted, whatever the
\* rotation speed, pinch state, photo and status; an activation flips
\* sceneState and changes nothing else, so two activations in a row restore it.
C17_ModeToggle ==
    /\ [](videoRef => ENABLED ToggleMode)
    /\ [](FlipMode(FlipMode(sceneState)) = sceneState)
    /\ [][ToggleMode =>
            /\ sceneState' # sceneState
            /\ sceneState' \in {"CHAOS", "FORMED"}
            /\ UNCHANGED << rotationSpeed, aiStatus, selectedPhoto, selectedPhotoRef,
                            quality, debugMode, debugModeRef, perfRef, isPinchingRef,
                            videoRef, pc, gestureRecognizer, stream, lastInferenceMs,
                            requestRef, rafPending, recognizerRes, tracks, tornDown,
                            last, experience, pools, instance, browser >>]_vars

\* the mode differs from the rendered one after a frame that issued no
\* command, in the middle of a pinch that shows a photo, the hand off centre
C17_Witness ==
    /\ sceneState = "FORMED" /\ experience.sceneState = "CHAOS"
    /\ last.kind = "processed" /\ last.cmd = "none"
    /\ isPinchingRef /\ Truthy(selectedPhotoRef) /\ rotationSpeed # 0

\* C18: the autoRotate prop of the orbit controls is true iff the rendered
\* rotationSpeed is exactly 0 and the rendered sceneState is FORMED, in every
\* state; it changes only when GrandTreeApp renders.
C18_AutoRotateGuard ==
    /\ [](experience.autoRotate <=>
             (experience.rotationSpeed = 0 /\ experience.sceneState = "FORMED"))
    /\ [](experience.sceneState = "CHAOS" => ~experience.autoRotate)
    /\ [](experience.rotationSpeed # 0 => ~experience.autoRotate)
    /\ [][experience' # experience =>
            experience' = [sceneState |-> sceneState, rotationSpeed |-> rotationSpeed,
                           autoRotate |-> (rotationSpeed = 0 /\ sceneState = "FORMED")]
       ]_vars

\* the tree is formed and the hand is off centre: no auto-rotate
C18_Witness ==
    /\ experience.sceneState = "FORMED" /\ experience.rotationSpeed # 0
    /\ ~experience.autoRotate
    /\ last.kind = "processed" /\ last.hand

\* the followed instance has a position of its own
Positional(i) == i.category \in {"ornaments", "elements", "lights"}

\* the target of the followed instance in the rendered mode
ActiveTarget ==
    IF experience.sceneState = "FORMED" THEN instance.targetPos ELSE instance.chaosPos

\* C14: a change of sceneState, and the render that delivers it, leave the
\* followed instance's currentPos, morphProgress and uProgress as they are;
\* every frame, the first after a change included, moves currentPos from
\* where it is by (target - currentPos) * delta * rate towards the target of
\* the rendered mode, and with delta * rate < 1 does not land on the target;
\* the progress values move the same way, by damping.
C14_NoJump ==
    [][/\ (sceneState' # sceneState) => instance' = instance
       /\ (experience'.sceneState # experience.sceneState /\ pools' = pools) =>
             instance' = instance
       /\ (instance' # instance /\ pools' = pools) =>
             \E deltaMs \in DeltaValues :
                LET formed == experience.sceneState = "FORMED"
                    goal == IF formed THEN ProgressUnits ELSE 0
                    d == ActiveTarget - instance.currentPos
                    a == Alpha(Rate(instance.category, instance.weight, formed), deltaMs)
                IN  /\ instance'.chaosPos = instance.chaosPos
                    /\ instance'.targetPos = instance.targetPos
                    /\ Positional(instance) =>
                          /\ instance'.currentPos - instance.currentPos
                                = RoundDiv(d * a, 1000)
                          /\ (a < 1000 /\ 2 * Abs(d) * (1000 - a) > 1000) =>
                                instance'.currentPos # ActiveTarget
                    /\ ~Positional(instance) => instance'.currentPos = instance.currentPos
                    /\ (instance.category = "ornaments"
                          /\ instance.index <= pools.morphProgress) =>
                          instance'.morphProgress =
                             Damp(instance.morphProgress, goal, 200, deltaMs)
                    /\ instance.category = "foliage" =>
                          instance'.uProgress =
                             Damp(instance.uProgress, goal, 150, deltaMs)]_vars

\* CHAOS again before the tree had formed, and FORMED asked for once more:
\* the instance is part of the way, and stays there until a frame moves it
C14_Witness ==
    /\ Positional(instance)
    /\ sceneState = "FORMED" /\ experience.sceneState = "CHAOS"
    /\ instance.currentPos > instance.targetPos + 2
    /\ instance.currentPos < instance.chaosPos - 2

\* the followed coordinate is within Eps of its target position
Converged ==
    Positional(instance) => Abs(instance.currentPos - instance.targetPos) <= Eps

\* C15: once sceneState stays FORMED (and the Canvas is not remounted), the
\* distance from currentPos to targetPos eventually falls below the threshold
\* and stays below it, whatever deltas the frames have.
C15_Convergence ==
    <>[](sceneState = "FORMED" /\ experience.sceneState = "FORMED"
            /\ pools.key = quality)
        => <>[]Converged

\* every pool in use has the count of preset q (the morphProgress array
\* once its effect has filled it), and the followed instance is one of such a
\* pool
PoolsOf(q, p, i) ==
    /\ p.key = q
    /\ \A c \in Categories : p[c] = PERF_PRESETS[q].counts[c]
    /\ p.morphProgress \in {0, PERF_PRESETS[q].counts.ornaments}
    /\ i.index \in 1..PERF_PRESETS[q].counts[i.category]

\* C19: the render that follows a change of quality leaves only pools of the
\* new preset's counts, in use by every later frame, and neither the click on
\* the quality button nor that render changes sceneState: the new scene is
\* rendered in the mode of the old one.
C19_QualitySwitch ==
    [][ /\ quality' # quality => sceneState' = sceneState
        /\ perfRef' # perfRef =>
              /\ PoolsOf(quality, pools', instance')
              /\ pools' # pools
              /\ sceneState' = sceneState
              /\ experience'.sceneState = sceneState
        /\ PoolsOf(perfRef', pools', instance') ]_vars

\* C19 witness: the scene is mounted with the smaller pools of LOW, written to
\* the storage by the render that mounted them, in the FORMED mode, and a
\* frame has run on the last instance of the lights pool
C19_Witness ==
    /\ browser.stored = <<"LOW">>
    /\ perfRef = "LOW"
    /\ pools.key = "LOW"
    /\ pools.morphProgress = pools.ornaments
    /\ pools.lights < MountPools("HIGH").lights
    /\ experience.sceneState = "FORMED"
    /\ instance.category = "lights"
    /\ instance.index = pools.lights
    /\ instance.currentPos # instance.chaosPos

\* getItem returns a valid preset
ReadsPreset(b) == ~b.getItemThrows /\ b.stored \in { <<"HIGH">>, <<"LOW">> }

\* C20: every quality that is rendered, at startup or after a toggle, is
\* written to the storage unless the write throws, and then nothing else
\* changes; a startup that reads "HIGH" or "LOW" starts with that preset, so
\* with working storage it starts with the last rendered preset; otherwise
\* it starts with the detected default, or HIGH without navigator.
C20_QualityRoundTrip ==
    [][ /\ perfRef' # perfRef =>
              browser' = IF browser.setItemThrows THEN browser
                         ELSE [browser EXCEPT !.stored = <<quality'>>]
        /\ ~browser'.setItemThrows => browser'.stored = <<perfRef'>>
        /\ Reload =>
              /\ quality' \in {"HIGH", "LOW"}
              /\ ReadsPreset(browser) => quality' = browser.stored[1]
              /\ ~browser.getItemThrows /\ ~browser.setItemThrows =>
                    quality' = perfRef
              /\ ~ReadsPreset(browser) /\ browser.hasNavigator =>
                    quality' = detectDefaultQuality(browser)
              /\ ~ReadsPreset(browser) /\ ~browser.hasNavigator =>
                    quality' = "HIGH" ]_vars

\* C20 witness: a session with working storage on a device whose detected
\* default is HIGH runs with LOW, which is what the storage holds
C20_Witness ==
    /\ ~browser.getItemThrows
    /\ ~browser.setItemThrows
    /\ browser.hasNavigator
    /\ detectDefaultQuality(browser) = "HIGH"
    /\ quality = "LOW"
    /\ perfRef = "LOW"
    /\ browser.stored = <<"LOW">>

\* the tolerance of the rounded coordinates, in thousandths
Tol == 2

\* squared distance from the y axis
Radial2(pos) == pos[1] * pos[1] + pos[3] * pos[3]

\* pos lies in the cone of TREE, widened by margin
InCone(pos, margin) ==
    LET h == TREE.height
        y == pos[2]
        \* R * (1 - (y + H/2) / H) = R * (H/2 - y) / H
        bound == (TREE.radius * (h \div 2 - y)) \div h + margin + Tol
    IN  /\ -(h \div 2) <= y
        /\ y <= h \div 2
        /\ Radial2(pos) <= bound * bound

\* the chaos position is within the category's distribution: the sphere of
\* radius 25 for the foliage, the cube of the category's edge otherwise
InChaosBound(smp) ==
    IF smp.category = "foliage"
    THEN smp.chaosPos[1] * smp.chaosPos[1] + smp.chaosPos[2] * smp.chaosPos[2]
            + smp.chaosPos[3] * smp.chaosPos[3]
         <= (ChaosSphere.radius + Tol) * (ChaosSphere.radius + Tol)
    ELSE \A k \in 1..3 : 2 * Abs(smp.chaosPos[k]) <= ChaosCube(smp.category)

\* how far outside the cone a category's targets are placed
Margin(category) ==
    CASE category = "ornaments" -> 500
      [] category = "lights" -> 300
      [] OTHER -> 0

\* C21 as stated: every populated element has its chaos position within the
\* category's bound and its target position within the cone of height 22 and
\* base radius 9.
C21_PopulationBounds ==
    sample.category # "none" => InChaosBound(sample) /\ InCone(sample.targetPos, 0)

\* C21 amended: the chaos position is within the category's bound, and the
\* target position is within the cone for foliage and elements, within the
\* cone widened by 0.5 for ornaments and by 0.3 for lights.
C21_PopulationBoundsAmended ==
    sample.category # "none" =>
        /\ InChaosBound(sample)
        /\ InCone(sample.targetPos, Margin(sample.category))

\* C21 witness: an element of the elements pool at the base of the tree,
\* at 0.95 of the cone's radius, with a chaos position in a corner of its cube
C21_Witness ==
    /\ sample.category = "elements"
    /\ sample.targetPos[2] = -(TREE.height \div 2)
    /\ Radial2(sample.targetPos) = 8550 * 8550
    /\ sample.chaosPos = <<-30000, -30000, -30000>>

\* C22: the timestamp of every classifier call is greater than the timestamp
\* of the call before it (lastInferenceMs, 0 before the first call), also when
\* Date.now() reads the same millisecond or an earlier one than at that call:
\* such an invocation makes no call.
C22_TimestampsIncrease ==
    [][FrameStep =>
        LET called == last'.kind \in {"processed", "threw"}
        IN  /\ called => /\ last'.nowMs > lastInferenceMs
                          /\ lastInferenceMs' = Rebase(last'.nowMs, last'.nowMs)
            /\ last'.nowMs <= lastInferenceMs =>
                  /\ last'.kind \in {"idle", "skipped"}
                  /\ lastInferenceMs' = lastInferenceMs]_vars

\* C22 witness: after a classifier call the clock has gone back one step, and
\* the invocation that read it, video ready, has made no call
C22_Witness ==
    /\ lastInferenceMs = Epoch
    /\ last.kind = "skipped"
    /\ last.nowMs = Epoch - StepMs
    /\ perfRef = "HIGH"
    /\ rafPending = 1

\* C23: the morphProgress of the followed ornament is a number from 0 to 1
\* after every step, and a frame moves it by damping towards 1 in FORMED and
\* towards 0 in CHAOS, never past that target.
C23_MorphRange ==
    [][instance'.category = "ornaments" =>
        /\ instance'.morphProgress \in 0..ProgressUnits
        /\ Frame =>
              LET goal == IF experience.sceneState = "FORMED" THEN ProgressUnits ELSE 0
                  x == instance.morphProgress
                  y == instance'.morphProgress
              IN  /\ \E deltaMs \in DeltaValues : y = Damp(x, goal, 200, deltaMs)
                  /\ Abs(goal - y) <= Abs(goal - x)
                  /\ (x <= goal) = (y <= goal) \/ y = goal]_vars

\* C24: whenever a frame runs, each pool has the count of the rendered
\* preset, the followed index is within it, and for an ornament the
\* morphProgress array has that length too, so the slot read is defined.
C24_MatchingCardinality ==
    [][Frame =>
        /\ \A c \in Categories : pools[c] = PERF_PRESETS[pools.key].counts[c]
        /\ instance.index \in 1..pools[instance.category]
        /\ instance.category = "ornaments" =>
              /\ pools.morphProgress = pools.ornaments
              /\ instance.index <= pools.morphProgress
              /\ instance.morphProgress # NaN]_vars

\* the pipeline: the setup's position, the classifier, the camera stream, the
\* loop's schedule and PinchState
pipelineVars ==
    << pc, gestureRecognizer, stream, recognizerRes, tracks, tornDown,
       isPinchingRef, lastInferenceMs, rafPending, requestRef >>

\* C25: a click on the debug or the quality button, and the render that
\* delivers it to the controller, leave the pipeline, the scene commands and
\* the status as they are; and what a processed frame emits (pinch event,
\* mode command, rotation speed) is a function of the classifier's result and
\* PinchState alone, the same with debug on or off; with debug off a frame of
\* the running loop leaves the status text alone.
C25_DebugQualityKeepPipeline ==
    [][ /\ (debugMode' # debugMode \/ quality' # quality
            \/ debugModeRef' # debugModeRef \/ perfRef' # perfRef) =>
                UNCHANGED << pipelineVars, sceneState, rotationSpeed,
                             selectedPhoto, aiStatus, last >>
        /\ (FrameStep /\ last'.kind = "processed") =>
              /\ last'.hand =>
                    /\ last'.pinchEvt = PinchEdge(last'.pinchTest, isPinchingRef)
                    /\ isPinchingRef' = last'.pinchTest
                    /\ last'.cmd = GestureCommand(last'.gestures, last'.pinchTest)
                    /\ rotationSpeed' = Deadzone(HandSpeed(last'.wristX))
              /\ ~last'.hand =>
                    /\ last'.pinchEvt = "none" /\ last'.cmd = "none"
                    /\ isPinchingRef' = isPinchingRef
                    /\ rotationSpeed' = 0
              /\ sceneState' = SceneAfter(last'.cmd, sceneState)
              /\ (~debugModeRef /\ pc = "running") => aiStatus' = aiStatus
              /\ debugModeRef' = debugModeRef ]_vars

\* C25 witness: the pinch began while debug was on (its status is shown);
\* debug has since been switched off and rendered, and the loop, the camera,
\* the classifier and PinchState are still there
C25_Witness ==
    /\ aiStatus = <<"DETECTED:", "THREE", "FINGER", "PINCH">>
    /\ ~debugMode /\ ~debugModeRef
    /\ isPinchingRef
    /\ pc = "running" /\ rafPending = 1 /\ requestRef
    /\ tracks = "live" /\ recognizerRes = "open" /\ gestureRecognizer = "rec"
    /\ ~tornDown

\* C26: a processed frame without a hand leaves PinchState and the selected
\* photo as they are and emits no pinch event; a displayed photo is closed
\* only by a frame with a hand that emits the end of the pinch, or by the
\* click that dismisses it.
C26_HandLostDuringPinch ==
    [][ /\ (FrameStep /\ last'.kind = "processed" /\ ~last'.hand) =>
              /\ isPinchingRef' = isPinchingRef
              /\ last'.pinchEvt = "none"
              /\ last'.setPhoto = "none"
              /\ selectedPhoto' = selectedPhoto
        /\ (Truthy(selectedPhoto) /\ ~Truthy(selectedPhoto')) =>
              \/ (HandStep /\ last'.pinchEvt = "end" /\ ~last'.pinchTest)
              \/ closePhotoOverlay ]_vars

\* C26 witness: the hand has left the frame during a pinch that opened a
\* photo: PinchState is still true and the photo is still displayed
C26_Witness ==
    /\ last.kind = "processed" /\ ~last.hand
    /\ isPinchingRef
    /\ Truthy(selectedPhoto) /\ selectedPhotoRef = selectedPhoto
    /\ last.emitted = "start"

\* C27: whenever a frame calls handlePinch, the value it tests,
\* selectedPhotoRef.current, is the selected photo as the earlier calls have
\* left it, with or without a render in between; so the end of a pinch
\* closes the photo that is selected.
C27_HandlerSeesCurrentPhoto ==
    [][(FrameStep /\ last'.pinchEvt # "none") =>
          /\ selectedPhotoRef = selectedPhoto
          /\ (last'.pinchEvt = "end" /\ Truthy(selectedPhoto)) =>
                selectedPhoto' = NULL]_vars

\* x lies on the segment between a and b
Between(x, a, b) == (a <= x /\ x <= b) \/ (b <= x /\ x <= a)

\* C28: after every frame the followed position lies on the segment between
\* its previous value and the target of the rendered mode, so its distance to
\* that target has not grown, whatever the frame's delta.
C28_NoOvershoot ==
    [][(Frame /\ Positional(instance)) =>
          /\ Between(instance'.currentPos, instance.currentPos, ActiveTarget)
          /\ Abs(ActiveTarget - instance'.currentPos)
                <= Abs(ActiveTarget - instance.currentPos)]_vars

\* C29: while PinchState is true and no photo is selected, as after a
\* dismissal during the pinch, no step selects a photo, the step that ends the
\* pinch included; the dismissal itself leaves PinchState true; and a photo is
\* selected only by a frame that finds PinchState false and emits the start of
\* a pinch.
C29_NoReopenDuringPinch ==
    [][ /\ (isPinchingRef /\ ~Truthy(selectedPhoto)) => ~Truthy(selectedPhoto')
        /\ (closePhotoOverlay /\ isPinchingRef) =>
              (isPinchingRef' /\ ~Truthy(selectedPhoto'))
        /\ (~Truthy(selectedPhoto) /\ Truthy(selectedPhoto')) =>
              /\ HandStep
              /\ ~isPinchingRef
              /\ last'.pinchTest
              /\ last'.pinchEvt = "start" ]_vars

\* C29 witness: the photo was dismissed and the dismissal rendered while the
\* pinch went on, and the pinch has now ended without selecting anything
C29_Witness ==
    /\ last.kind = "processed" /\ last.hand
    /\ last.pinchEvt = "end" /\ last.setPhoto = "none"
    /\ ~isPinchingRef
    /\ ~Truthy(selectedPhoto) /\ ~Truthy(selectedPhotoRef)

\* C30: the selected photo is always no photo or a path of PHOTO_PATHS.body;
\* it becomes a path only in a frame that emits the start of a pinch, where
\* handlePinch picks an index from 0 to length - 1; and it changes in no step
\* other than a frame with a pinch event or the dismissal: not by the mode,
\* debug or quality button, a render, a mode command or a rotation update.
C30_SelectedPhotoDomain ==
    /\ [](selectedPhoto = NULL \/ selectedPhoto \in PhotoSet)
    /\ [][
            /\ (selectedPhoto' # selectedPhoto /\ selectedPhoto' # NULL) =>
                /\ FrameStep
                /\ last'.pinchEvt = "start"
                /\ last'.setPhoto = "path"
                /\ \E k \in 0..(Len(PHOTO_PATHS.body) - 1) :
                      selectedPhoto' = PHOTO_PATHS.body[k + 1]
            /\ (selectedPhoto' # selectedPhoto) =>
                  \/ FrameStep /\ last'.pinchEvt # "none"
                  \/ closePhotoOverlay
            /\ (sceneState' # sceneState \/ rotationSpeed' # rotationSpeed
                  \/ quality' # quality \/ debugMode' # debugMode
                  \/ perfRef' # perfRef \/ pools' # pools) =>
                  (selectedPhoto' = selectedPhoto \/ last'.pinchEvt # "none") ]_vars

\* C30 witness: the last photo of the set is selected by the start of a
\* pinch, with the tree formed and a click on the quality button not yet
\* rendered
C30_Witness ==
    /\ selectedPhoto = PHOTO_PATHS.body[Len(PHOTO_PATHS.body)]
    /\ last.pinchEvt = "start" /\ last.setPhoto = "path"
    /\ sceneState = "FORMED"
    /\ quality # perfRef

====
